---- MODULE Spec2Model ----
(***************************************************************************)
(* Model of wechat_header_mcp/server.py: the Jimeng API client             *)
(* (JiemengAPIClient: _sign_request, submit_task, get_result,              *)
(* generate_image) and the crop geometry (ImageCropper.get_crop_params).   *)
(*                                                                         *)
(* Time is counted in ticks of 1/TicksPerSec second, so that the rounding  *)
(* of generation_time to one decimal is a real conversion.  Python's None  *)
(* is the string None for string-valued things and the empty sequence for  *)
(* optional integers (<<>> is None, <<n>> is the integer n).               *)
(***************************************************************************)
EXTENDS Integers, Sequences, FiniteSets, TLC

VARIABLES
    pc,              \* position of the generate_image coroutine / which call is modelled
    access_key,      \* JiemengAPIClient.access_key
    secret_key,      \* JiemengAPIClient.secret_key
    width,           \* width argument  (<<>> is None)
    height,          \* height argument (<<>> is None)
    max_wait,        \* max_wait argument, seconds
    body,            \* bodies handed to client.post by submit_task (at most one)
    task_id,         \* local task_id of generate_image / return value of submit_task
    start_time,      \* local start_time of generate_image, ticks
    now,             \* time.time(), ticks
    result,          \* dict returned by generate_image
    submit_calls,    \* number of submit_task calls made
    poll_calls,      \* number of get_result calls made
    url_polls,       \* number of get_result calls that returned a URL
    fetch_ticks,     \* total time spent inside get_result calls
    poll_errors,     \* number of get_result calls whose HTTP call raised
    submit_resp,     \* the response given to the submit call (<<>> before it)
    last_resp,       \* the response given to the latest get_result call (<<>> before any)
    query_params,    \* query_params argument of _sign_request
    sign_body,       \* body argument of _sign_request
    utcnow,          \* datetime.utcnow() seen by _sign_request
    signed,          \* return value of _sign_request (<<>> before the call)
    original_width,  \* get_crop_params argument
    original_height, \* get_crop_params argument
    target_ratio,    \* get_crop_params argument, the rational <<n, d>>
    crop,            \* return value of get_crop_params (<<>> before the call)
    polled_ids,      \* the task_id arguments get_result has been called with
    returned_url,    \* return value of a direct get_result call
    tool,            \* the MCP tool that is called
    tool_args,       \* its arguments
    tool_return,     \* the JSON object it returns (<<>> before it returns)
    runs             \* concurrent generate_image calls on the shared client

vars == << pc, access_key, secret_key, width, height, max_wait, body, task_id,
           start_time, now, result, submit_calls, poll_calls, url_polls,
           fetch_ticks, poll_errors, submit_resp, last_resp,
           query_params, sign_body, utcnow, signed,
           original_width, original_height, target_ratio, crop,
           polled_ids, returned_url, tool, tool_args, tool_return, runs >>

signVars == << query_params, sign_body, utcnow, signed >>

cropVars == << original_width, original_height, target_ratio, crop >>

lifecycleVars == << pc, access_key, secret_key, width, height, max_wait, body, task_id,
                    start_time, now, result, submit_calls, poll_calls, url_polls,
                    fetch_ticks, poll_errors, submit_resp, last_resp, polled_ids >>

toolVars == << tool, tool_args, tool_return >>

\* the variables of a direct get_result call, of a tool call and of the
\* concurrent calls
otherVars == << returned_url, toolVars, runs >>

----------------------------------------------------------------------------
(* Values *)

None == "None"

\* Python truthiness of an Optional[str]
Truthy(s) == s # None /\ s # ""

\* os.getenv gives None when the variable is unset, "" when it is set empty
Credentials == {None, "", "AK"}
Secrets == {None, "", "SK"}

TicksPerSec == 20

\* asyncio.sleep(5)
SleepSeconds == 5
SleepTicks == SleepSeconds * TicksPerSec

\* httpx.AsyncClient(timeout=30)
CallTimeout == 30

\* default of max_wait
DefaultMaxWait == 60

MaxWaitSecs == 11
MaxWaits == (0 .. MaxWaitSecs) \cup {DefaultMaxWait}

\* how long one HTTP call may take: instantaneous, one tick, the full timeout
CallDurations == {0, 1, CallTimeout * TicksPerSec}

SuccessCode == 10000

----------------------------------------------------------------------------
(* JiemengAPIClient._sign_request *)

\* hashlib.sha256(x).hexdigest(), an uninterpreted injective function
SHA256(x) == << "sha256", x >>

\* hmac.new(key, msg, sha256), an uninterpreted injective function
HMAC(key, msg) == << "hmac", key, msg >>

\* the keys a query dict may hold, in the order sorted() puts them
KeyOrder == << "Action", "Version", "a", "b" >>

RECURSIVE SortedItemsFrom(_, _)
SortedItemsFrom(q, i) ==
    IF i > Len(KeyOrder) THEN << >>
    ELSE IF KeyOrder[i] \in DOMAIN q
         THEN << << KeyOrder[i], q[KeyOrder[i]] >> >> \o SortedItemsFrom(q, i + 1)
         ELSE SortedItemsFrom(q, i + 1)

\* '&'.join(f"{k}={v}" for k, v in sorted(query_params.items()))
CanonicalQueryString(q) == SortedItemsFrom(q, 1)

\* getSignatureKey(key, dateStamp, regionName, serviceName)
getSignatureKey(key, dateStamp, regionName, serviceName) ==
    LET kDate    == HMAC(key, dateStamp)
        kRegion  == HMAC(kDate, regionName)
        kService == HMAC(kRegion, serviceName)
    IN  HMAC(kService, "request")

\* the sentinel (None, None)
NoSignature == [headers |-> << >>, request_url |-> << >>]

\* if self.access_key is None or self.secret_key is None
SignGuardAbsent(ak, sk) == ak = None \/ sk = None

\* _sign_request(query_params, body) at time t = [date, time]; headers and
\* request_url are one-element sequences, << >> standing for None
SignRequest(ak, sk, q, b, t) ==
    IF SignGuardAbsent(ak, sk) THEN NoSignature
    ELSE
      LET current_date == << t.date, "T", t.time, "Z" >>
          datestamp == t.date
          canonical_querystring == CanonicalQueryString(q)
          signed_headers == << "content-type", "host", "x-content-sha256", "x-date" >>
          payload_hash == SHA256(b)
          canonical_headers == << << "content-type", "application/json" >>,
                                  << "host", "visual.volcengineapi.com" >>,
                                  << "x-content-sha256", payload_hash >>,
                                  << "x-date", current_date >> >>
          canonical_request == << "POST", "/", canonical_querystring,
                                  canonical_headers, signed_headers, payload_hash >>
          credential_scope == << datestamp, "cn-north-1", "cv", "request" >>
          string_to_sign == << "HMAC-SHA256", current_date, credential_scope,
                               SHA256(canonical_request) >>
          signing_key == getSignatureKey(sk, datestamp, "cn-north-1", "cv")
          signature == HMAC(signing_key, string_to_sign)
      IN  [headers |-> << [XDate |-> current_date,
                           Authorization |-> [algorithm |-> "HMAC-SHA256",
                                              Credential |-> << ak, credential_scope >>,
                                              SignedHeaders |-> signed_headers,
                                              Signature |-> signature],
                           XContentSha256 |-> payload_hash,
                           ContentType |-> "application/json"] >>,
           request_url |-> << << "https://visual.volcengineapi.com?", canonical_querystring >> >>]

SubmitQuery == [Action |-> "CVSync2AsyncSubmitTask", Version |-> "2022-08-31"]
ResultQuery == [Action |-> "CVSync2AsyncGetResult", Version |-> "2022-08-31"]

----------------------------------------------------------------------------
(* JiemengAPIClient.submit_task *)

MinArea == 1024 * 1024
MaxArea == 4096 * 4096

\* default dimensions when width or height is None
DefaultSide == 2048

\* the local variable area: width * height clamped into [MinArea, MaxArea].
\* The code computes it and never reads it again.
ClampedArea(w, h) ==
    IF w * h < MinArea THEN MinArea
    ELSE IF w * h > MaxArea THEN MaxArea
    ELSE w * h

\* AdjustRatio with the smaller dimension adjusted instead of the larger
AdjustRatio_AdjustSmaller(w, h) ==
    IF 3 * w < h THEN [width |-> (h + 2) \div 3, height |-> h]
    ELSE IF w > 3 * h THEN [width |-> w, height |-> (w + 2) \div 3]
    ELSE [width |-> w, height |-> h]

\* AdjustRatio with height / 3 where the code has height * 3
AdjustRatio_DivideHeight(w, h) ==
    IF 3 * w < h THEN [width |-> w, height |-> w * 3]
    ELSE IF w > 3 * h THEN [width |-> h \div 3, height |-> h]
    ELSE [width |-> w, height |-> h]

\* ratio = width / height; if ratio < 1/3: height = int(width * 3)
\* elif ratio > 3: width = int(height * 3).  For h > 0, w/h < 1/3 is 3w < h
\* and w/h > 3 is w > 3h.
AdjustRatio(w, h) ==
    IF 3 * w < h THEN [width |-> w, height |-> w * 3]
    ELSE IF w > 3 * h THEN [width |-> h * 3, height |-> h]
    ELSE [width |-> w, height |-> h]

\* both width and height were given
DimensionsGiven(w, h) == w # << >> /\ h # << >>

\* width / height raises ZeroDivisionError
DimensionsRaise(w, h) == DimensionsGiven(w, h) /\ h[1] = 0

\* body["width"], body["height"]
BodyDimensions(w, h) ==
    IF DimensionsGiven(w, h) THEN AdjustRatio(w[1], h[1])
    ELSE [width |-> DefaultSide, height |-> DefaultSide]

\* if not self.access_key or not self.secret_key
KeysMissing(ak, sk) == ~Truthy(ak) \/ ~Truthy(sk)

\* what the remote service (or the transport) answers to the submit call:
\* the call raises, or an HTTP status with an application code and
\* data.task_id (None when the key is missing)
SubmitResponses ==
    { [exc |-> TRUE, status_code |-> 0, code |-> 0, task_id |-> None],
      [exc |-> FALSE, status_code |-> 500, code |-> 0, task_id |-> None],
      [exc |-> FALSE, status_code |-> 200, code |-> 50411, task_id |-> None] }
    \cup [exc : {FALSE}, status_code : {200}, code : {SuccessCode},
          task_id : {None, "", "T1"}]

\* whether submit_task reaches client.post
SubmitTransmits(ak, sk, w, h) == ~KeysMissing(ak, sk) /\ ~DimensionsRaise(w, h)

\* the request submit_task hands to client.post
SubmitRequest(ak, sk, w, h, t) ==
    LET dims == BodyDimensions(w, h)
        sig == SignRequest(ak, sk, SubmitQuery, dims, t)
    IN  [width |-> dims.width, height |-> dims.height, headers |-> sig.headers]

\* return value of submit_task
submit_task(ak, sk, w, h, resp) ==
    IF ~SubmitTransmits(ak, sk, w, h) THEN None
    ELSE IF resp.exc THEN None
    ELSE IF resp.status_code = 200 /\ resp.code = SuccessCode THEN resp.task_id
    ELSE None

----------------------------------------------------------------------------
(* JiemengAPIClient.get_result *)

JobStatuses == {"done", "generating"}
UrlLists == { << >>, << "u1" >>, << "u2", "u1" >> }

\* what the remote service (or the transport) answers to a get_result call:
\* the call raises, a non-200 status, an application error code, or a job
\* status with its image_urls
PollResponses ==
    { [exc |-> TRUE, status_code |-> 0, code |-> 0, status |-> "generating",
       image_urls |-> << >>],
      [exc |-> FALSE, status_code |-> 500, code |-> 0, status |-> "generating",
       image_urls |-> << >>],
      [exc |-> FALSE, status_code |-> 200, code |-> 50411, status |-> "generating",
       image_urls |-> << >>] }
    \cup [exc : {FALSE}, status_code : {200}, code : {SuccessCode},
          status : JobStatuses, image_urls : UrlLists]

\* get_result returning the last URL of the list instead of the first
get_result_LastUrl(ak, sk, resp) ==
    IF KeysMissing(ak, sk) THEN None
    ELSE IF resp.exc THEN None
    ELSE IF /\ resp.status_code = 200
            /\ resp.code = SuccessCode
            /\ resp.status = "done"
            /\ resp.image_urls # << >>
         THEN resp.image_urls[Len(resp.image_urls)]
    ELSE None

\* get_result not looking at the job status
get_result_AnyStatus(ak, sk, resp) ==
    IF KeysMissing(ak, sk) THEN None
    ELSE IF resp.exc THEN None
    ELSE IF /\ resp.status_code = 200
            /\ resp.code = SuccessCode
            /\ resp.image_urls # << >>
         THEN resp.image_urls[1]
    ELSE None

\* return value of get_result
get_result(ak, sk, resp) ==
    IF KeysMissing(ak, sk) THEN None
    ELSE IF resp.exc THEN None
    ELSE IF /\ resp.status_code = 200
            /\ resp.code = SuccessCode
            /\ resp.status = "done"
            /\ resp.image_urls # << >>
         THEN resp.image_urls[1]
    ELSE None

----------------------------------------------------------------------------
(* JiemengAPIClient.generate_image *)

NoResult == [status |-> "none", image_url |-> None, task_id |-> None, generation_time |-> 0]

\* the dict returned when submission failed
ErrorResult ==
    [status |-> "error", image_url |-> None, task_id |-> None, generation_time |-> 0]

\* the dict returned when get_result gave a URL; generation_time in tenths of a second
SuccessResult(url, tid, gt) ==
    [status |-> "success", image_url |-> url, task_id |-> tid, generation_time |-> gt]

\* the timeout dict without the task id
TimeoutResult_NoTaskId(tid) ==
    [status |-> "timeout", image_url |-> None, task_id |-> None, generation_time |-> 0]

\* the timeout reported with the status of a failure
TimeoutResult_AsError(tid) ==
    [status |-> "error", image_url |-> None, task_id |-> tid, generation_time |-> 0]

\* the dict returned when the loop ran out
TimeoutResult(tid) ==
    [status |-> "timeout", image_url |-> None, task_id |-> tid, generation_time |-> 0]

\* round(elapsed, 1) of an elapsed time of t ticks, in tenths of a second.
\* A value halfway between two tenths goes either way: which one depends on
\* the binary representation of the float.
RoundTenths(t) ==
    LET q == (10 * t) \div TicksPerSec
        r == (10 * t) % TicksPerSec
    IN  IF 2 * r < TicksPerSec THEN {q}
        ELSE IF 2 * r > TicksPerSec THEN {q + 1}
        ELSE {q, q + 1}

\* the loop test letting a poll begin exactly at the deadline
LoopCondition_Inclusive(n, st, mw) == n - st <= mw * TicksPerSec

\* while time.time() - start_time < max_wait
LoopCondition(n, st, mw) == n - st < mw * TicksPerSec

\* the test "task_id is None" where the code has "not task_id"
SubmissionFailed_OnlyNone(tid) == tid = None

\* if not task_id
SubmissionFailed(tid) == ~Truthy(tid)

\* the time of a request
Clock(n) == [date |-> "20250101", time |-> n]

\* task_id = await self.submit_task(prompt, width, height); if not task_id: return error;
\* start_time = time.time()
Submit ==
    /\ pc = "submit"
    /\ \E resp \in SubmitResponses, d \in CallDurations :
         LET sends == SubmitTransmits(access_key, secret_key, width, height)
             tid == submit_task(access_key, secret_key, width, height, resp)
         IN  /\ submit_calls' = submit_calls + 1
             /\ body' = IF sends
                        THEN body \o << SubmitRequest(access_key, secret_key, width, height, Clock(now)) >>
                        ELSE body
             /\ submit_resp' = IF sends THEN << resp >> ELSE << >>
             /\ now' = IF sends THEN now + d ELSE now
             /\ task_id' = tid
             /\ IF SubmissionFailed(tid)
                THEN /\ result' = ErrorResult
                     /\ pc' = "done"
                     /\ start_time' = start_time
                ELSE /\ result' = result
                     /\ pc' = "loop"
                     /\ start_time' = now'
    /\ UNCHANGED << access_key, secret_key, width, height, max_wait, poll_calls,
                    url_polls, fetch_ticks, poll_errors, last_resp >>
    /\ UNCHANGED << polled_ids, signVars, cropVars, otherVars >>

\* one pass of the loop up to its await: the loop test, get_result and the
\* success return
Poll ==
    /\ pc = "loop"
    /\ LoopCondition(now, start_time, max_wait)
    /\ \E resp \in PollResponses, d \in CallDurations :
         LET image_url == get_result(access_key, secret_key, resp)
         IN  /\ poll_calls' = poll_calls + 1
             /\ last_resp' = << resp >>
             /\ now' = now + d
             /\ fetch_ticks' = fetch_ticks + d
             /\ poll_errors' = IF resp.exc THEN poll_errors + 1 ELSE poll_errors
             /\ IF Truthy(image_url)
                THEN /\ \E gt \in RoundTenths(now' - start_time) :
                           result' = SuccessResult(image_url, task_id, gt)
                     /\ url_polls' = url_polls + 1
                     /\ pc' = "done"
                ELSE /\ result' = result
                     /\ url_polls' = url_polls
                     /\ pc' = "sleep"
    /\ UNCHANGED << access_key, secret_key, width, height, max_wait, body, task_id,
                    start_time, submit_calls, submit_resp >>
    /\ polled_ids' = polled_ids \cup {task_id}
    /\ UNCHANGED << signVars, cropVars, otherVars >>

\* a loop that submits the task again after each sleep
Sleep_Resubmit ==
    /\ pc = "sleep"
    /\ now' = now + SleepTicks
    /\ pc' = "submit"
    /\ UNCHANGED << access_key, secret_key, width, height, max_wait, body, task_id,
                    start_time, result, submit_calls, poll_calls, url_polls,
                    fetch_ticks, poll_errors, submit_resp, last_resp >>
    /\ UNCHANGED << polled_ids, signVars, cropVars, otherVars >>

\* await asyncio.sleep(5)
Sleep ==
    /\ pc = "sleep"
    /\ now' = now + SleepTicks
    /\ pc' = "loop"
    /\ UNCHANGED << access_key, secret_key, width, height, max_wait, body, task_id,
                    start_time, result, submit_calls, poll_calls, url_polls,
                    fetch_ticks, poll_errors, submit_resp, last_resp >>
    /\ UNCHANGED << polled_ids, signVars, cropVars, otherVars >>

\* the loop test fails: return the timeout dict
Timeout ==
    /\ pc = "loop"
    /\ ~LoopCondition(now, start_time, max_wait)
    /\ result' = TimeoutResult(task_id)
    /\ pc' = "done"
    /\ UNCHANGED << access_key, secret_key, width, height, max_wait, body, task_id,
                    start_time, now, submit_calls, poll_calls, url_polls,
                    fetch_ticks, poll_errors, submit_resp, last_resp >>
    /\ UNCHANGED << polled_ids, signVars, cropVars, otherVars >>

\* the dimensions generate_image is called with: its defaults and the
\* WeChat header preset
GenDimensions == { << 512, 512 >>, << 2848, 1212 >> }

SignIdle ==
    /\ query_params = SubmitQuery
    /\ sign_body = ""
    /\ utcnow = Clock(0)
    /\ signed = << >>

CropIdle ==
    /\ original_width = 1
    /\ original_height = 1
    /\ target_ratio = << 1, 1 >>
    /\ crop = << >>

LifecycleStart ==
    /\ body = << >>
    /\ task_id = None
    /\ start_time = 0
    /\ now = 0
    /\ result = NoResult
    /\ submit_calls = 0
    /\ poll_calls = 0
    /\ url_polls = 0
    /\ fetch_ticks = 0
    /\ poll_errors = 0
    /\ submit_resp = << >>
    /\ last_resp = << >>
    /\ polled_ids = {}

\* no direct get_result call, no tool call, no concurrent calls
OthersIdle ==
    /\ returned_url = None
    /\ tool = "none"
    /\ tool_args = << >>
    /\ tool_return = << >>
    /\ runs = << >>

\* a call of generate_image on a freshly constructed client
Init ==
    /\ pc = "submit"
    /\ access_key \in Credentials
    /\ secret_key \in Secrets
    /\ \E wh \in GenDimensions : width = << wh[1] >> /\ height = << wh[2] >>
    /\ max_wait \in MaxWaits
    /\ LifecycleStart
    /\ OthersIdle
    /\ SignIdle
    /\ CropIdle

Next == Submit \/ Poll \/ Sleep \/ Timeout

Spec == Init /\ [][Next]_vars

\* the event loop resumes a coroutine that can run
LiveSpec == Spec /\ WF_vars(Next)

----------------------------------------------------------------------------
(* A direct call of submit_task *)

SubmitSides == {0, 1, 3, 100, 300, 1024, 2048, 4096, 10000}
OptionalSides == { << >> } \cup { << n >> : n \in SubmitSides }

InitSubmit ==
    /\ pc = "submit_task"
    /\ access_key \in Credentials
    /\ secret_key \in Secrets
    /\ width \in OptionalSides
    /\ height \in OptionalSides
    /\ max_wait = 0
    /\ LifecycleStart
    /\ OthersIdle
    /\ SignIdle
    /\ CropIdle

\* await client.submit_task(prompt, width, height)
SubmitTaskCall ==
    /\ pc = "submit_task"
    /\ \E resp \in SubmitResponses :
         LET sends == SubmitTransmits(access_key, secret_key, width, height)
         IN  /\ submit_calls' = submit_calls + 1
             /\ body' = IF sends
                        THEN body \o << SubmitRequest(access_key, secret_key, width, height, Clock(now)) >>
                        ELSE body
             /\ submit_resp' = IF sends THEN << resp >> ELSE << >>
             /\ task_id' = submit_task(access_key, secret_key, width, height, resp)
    /\ pc' = "returned"
    /\ UNCHANGED << access_key, secret_key, width, height, max_wait, start_time, now,
                    result, poll_calls, url_polls, fetch_ticks, poll_errors, last_resp >>
    /\ UNCHANGED << polled_ids, signVars, cropVars, otherVars >>

NextSubmit == SubmitTaskCall

SpecSubmit == InitSubmit /\ [][NextSubmit]_vars

----------------------------------------------------------------------------
(* A direct call of _sign_request *)

QueryDicts ==
    { SubmitQuery, ResultQuery }
    \cup UNION { [ks -> {"1", "2"}] : ks \in (SUBSET {"a", "b"}) \ { {} } }

SignBodies == { "{}", "{\"req_key\": \"jimeng_t2i_v40\"}" }

InitSign ==
    /\ pc = "sign"
    /\ access_key \in Credentials
    /\ secret_key \in Secrets
    /\ query_params \in QueryDicts
    /\ sign_body \in SignBodies
    /\ utcnow \in { Clock(0), Clock(1) }
    /\ signed = << >>
    /\ width = << >>
    /\ height = << >>
    /\ max_wait = 0
    /\ LifecycleStart
    /\ OthersIdle
    /\ CropIdle

\* headers, request_url = self._sign_request(query_params, body)
SignCall ==
    /\ pc = "sign"
    /\ signed' = << SignRequest(access_key, secret_key, query_params, sign_body, utcnow) >>
    /\ pc' = "signed"
    /\ UNCHANGED << access_key, secret_key, width, height, max_wait, body, task_id,
                    start_time, now, result, submit_calls, poll_calls, url_polls,
                    fetch_ticks, poll_errors, submit_resp, last_resp >>
    /\ UNCHANGED << query_params, sign_body, utcnow, cropVars, polled_ids, otherVars >>

NextSign == SignCall

SpecSign == InitSign /\ [][NextSign]_vars

----------------------------------------------------------------------------
(* ImageCropper.get_crop_params *)

RECURSIVE IsPowerOfTwo(_)
IsPowerOfTwo(d) ==
    IF d = 1 THEN TRUE
    ELSE IF d % 2 = 1 THEN FALSE
    ELSE IsPowerOfTwo(d \div 2)

\* The float results, among the products original_height * target_ratio and
\* the quotients original_width / target_ratio that the sides and ratios
\* below give, that IEEE-754 double arithmetic puts just under their exact
\* integer value, as << num, den, ratio >> for the real number num / den:
\*   9 / (9/7) = 6.999..., 18 / (9/7) = 13.999..., 11 * (15/11) = 14.999...,
\*   100 * 1.15 = 114.99999999999999, 200 * 1.15 = 229.99999999999997
FloatBelow ==
    { << 63, 9, << 9, 7 >> >>, << 126, 9, << 9, 7 >> >>,
      << 165, 11, << 15, 11 >> >>,
      << 2300, 20, << 23, 20 >> >>, << 4600, 20, << 23, 20 >> >> }

\* int(x) of the float computed for the real number num / den, where the
\* target ratio n/d (in lowest terms) took part in the computation.  A ratio
\* whose denominator is a power of two is a float exactly and so is the
\* result.  Any other ratio is a float only approximately: a result that is
\* an integer q in real arithmetic may come out just below q, which int()
\* truncates to q - 1.
IntOfFloat(num, den, ratio) ==
    LET q == num \div den
    IN  IF /\ num % den = 0
           /\ ~IsPowerOfTwo(ratio[2])
           /\ << num, den, ratio >> \in FloatBelow
        THEN {q - 1}
        ELSE {q}

\* the comparison of get_crop_params turned around
TooWide_Reversed(ow, oh, ratio) == ow * ratio[2] <= oh * ratio[1]

\* original_width / original_height >= target_ratio
TooWide(ow, oh, ratio) == ow * ratio[2] >= oh * ratio[1]

\* the width branch with the offset's subtraction turned around
CropWidth_NegatedOffset(ow, oh, new_width) ==
    [x |-> (new_width - ow) \div 2, y |-> 0,
     width |-> new_width, height |-> oh, crop_needed |-> TRUE]

\* the branch that crops the width
CropWidth(ow, oh, new_width) ==
    [x |-> (ow - new_width) \div 2, y |-> 0,
     width |-> new_width, height |-> oh, crop_needed |-> TRUE]

\* the branch that crops the height
CropHeight(ow, oh, new_height) ==
    [x |-> 0, y |-> (oh - new_height) \div 2,
     width |-> ow, height |-> new_height, crop_needed |-> TRUE]

\* the dict get_crop_params returns, as a one-element set
get_crop_params(ow, oh, ratio) ==
    IF TooWide(ow, oh, ratio)
    THEN { CropWidth(ow, oh, nw) : nw \in IntOfFloat(oh * ratio[1], ratio[2], ratio) }
    ELSE { CropHeight(ow, oh, nh) : nh \in IntOfFloat(ow * ratio[2], ratio[1], ratio) }

MaxSide == 16
SourceSides == (1 .. MaxSide) \cup {100, 200, 1000, 2000}

\* target ratios n/d in lowest terms; << 47, 20 >> is 2.35, << 23, 20 >> is 1.15
TargetRatios ==
    { << 1, 1 >>, << 2, 1 >>, << 1, 2 >>, << 3, 2 >>, << 47, 20 >>,
      << 9, 7 >>, << 15, 11 >>, << 1, 3 >>, << 16, 9 >>, << 23, 20 >> }

InitCrop ==
    /\ pc = "crop"
    /\ original_width \in SourceSides
    /\ original_height \in SourceSides
    /\ target_ratio \in TargetRatios
    /\ crop = << >>
    /\ access_key = "AK"
    /\ secret_key = "SK"
    /\ width = << >>
    /\ height = << >>
    /\ max_wait = 0
    /\ LifecycleStart
    /\ OthersIdle
    /\ SignIdle

\* crop_params = ImageCropper.get_crop_params(actual_width, actual_height, target_ratio)
CropCall ==
    /\ pc = "crop"
    /\ \E rect \in get_crop_params(original_width, original_height, target_ratio) :
         crop' = << rect >>
    /\ pc' = "cropped"
    /\ UNCHANGED << access_key, secret_key, width, height, max_wait, body, task_id,
                    start_time, now, result, submit_calls, poll_calls, url_polls,
                    fetch_ticks, poll_errors, submit_resp, last_resp >>
    /\ UNCHANGED << signVars, original_width, original_height, target_ratio, polled_ids, otherVars >>

NextCrop == CropCall

SpecCrop == InitCrop /\ [][NextCrop]_vars

----------------------------------------------------------------------------
(* The MCP tools: create_image, create_wechat_header, crop_image_to_url,
   get_style_suggestions.  A returned JSON object is modelled by the set of
   its keys and the value of its "status" key (None when it has none). *)

GenerationTools == {"create_image", "create_wechat_header"}

\* resolution: the three documented values, and a value that is no string
Resolutions == {"1k", "2k", "4k", None}

\* prompt: a string, or a value that is no string
Prompts == {"a cat", None}

\* prompt.strip() of optimize_prompt raises
PromptRaises(prompt) == prompt = None

\* resolution.upper() raises
ResolutionRaises(resolution) == resolution = None

\* width, height chosen from resolution
ToolDimensions(t, resolution) ==
    IF t = "create_image"
    THEN IF resolution = "1k" THEN << 1024, 1024 >>
         ELSE IF resolution = "4k" THEN << 4096, 4096 >>
         ELSE << 2048, 2048 >>
    ELSE IF resolution = "1k" THEN << 1424, 606 >>
         ELSE IF resolution = "4k" THEN << 5696, 2424 >>
         ELSE << 2848, 1212 >>

\* the dict of an except branch of create_image, create_wechat_header,
\* crop_image_to_url
ToolErrorObject ==
    [keys |-> {"status", "message", "suggestion"}, status |-> "error"]

\* the keys of the dict generate_image returned
GenerateImageKeys(r) ==
    IF r.status = "success"
    THEN {"status", "image_url", "task_id", "generation_time", "prompt", "dimensions"}
    ELSE IF r.status = "timeout"
    THEN {"status", "message", "task_id", "suggestion"}
    ELSE {"status", "message", "suggestion"}

\* the keys result.update(...) adds on success
SuccessExtraKeys(t) ==
    IF t = "create_image"
    THEN {"use_case", "aspect_ratio", "resolution", "suitable_for", "next_steps"}
    ELSE {"use_case", "aspect_ratio", "resolution", "original_image_url",
          "suitable_for", "next_steps", "usage_tips"}

\* what create_image / create_wechat_header return for the dict r of generate_image
GenerationToolObject(t, resolution, r) ==
    IF r.status = "success"
    THEN IF ResolutionRaises(resolution) THEN ToolErrorObject
         ELSE [keys |-> GenerateImageKeys(r) \cup SuccessExtraKeys(t), status |-> r.status]
    ELSE [keys |-> GenerateImageKeys(r), status |-> r.status]

OutputFormats == {"params", "base64", "compressed", "other"}

\* the dict crop_image_to_url builds when smart_crop_to_ratio gave a result
CropToolObject(output_format) ==
    LET base == {"status", "operation", "original_url", "actual_size", "target_ratio",
                 "cropped_size", "crop_params", "output_format", "usage", "next_steps"}
        extra == IF output_format = "params" THEN {"crop_url", "manual_instructions"}
                 ELSE IF output_format = "base64" THEN {"cropped_base64", "base64_length"}
                 ELSE IF output_format = "compressed"
                 THEN {"cropped_base64", "base64_length", "compressed_size"}
                 ELSE {}
    IN  [keys |-> base \cup extra, status |-> "success"]

\* content_type: a known category, an unknown one, a value that cannot be a dict key
ContentTypes == {"business", "unknown", "unhashable"}
Moods == {None, "professional", "friendly", "creative"}

\* STYLE_SUGGESTIONS.get(content_type, ...) raises TypeError
ContentTypeRaises(content_type) == content_type = "unhashable"

\* the dict get_style_suggestions returns from its try block
StyleObject ==
    [keys |-> {"content_type", "mood", "recommended_styles", "usage_examples", "tips"},
     status |-> None]

\* the dict get_style_suggestions returns from its except branch
StyleErrorObject ==
    [keys |-> {"error", "message", "suggestion"}, status |-> None]

\* what get_style_suggestions returns
StyleToolObject(content_type) ==
    IF ContentTypeRaises(content_type) THEN StyleErrorObject ELSE StyleObject

\* a tool is called on a process whose client is not yet constructed
InitTools ==
    /\ pc = "tool"
    /\ access_key \in Credentials
    /\ secret_key \in Secrets
    /\ \/ /\ tool \in GenerationTools
          /\ tool_args \in [prompt : Prompts, resolution : Resolutions]
          /\ original_width = 1
          /\ original_height = 1
          /\ target_ratio = << 1, 1 >>
       \/ /\ tool = "crop_image_to_url"
          /\ tool_args \in [output_format : OutputFormats]
          /\ original_width \in {9, 2000}
          /\ original_height \in {8, 1000}
          /\ target_ratio \in {<< 47, 20 >>, << 1, 1 >>, << 9, 7 >>}
       \/ /\ tool = "get_style_suggestions"
          /\ tool_args \in [content_type : ContentTypes, mood : Moods]
          /\ original_width = 1
          /\ original_height = 1
          /\ target_ratio = << 1, 1 >>
    /\ crop = << >>
    /\ tool_return = << >>
    /\ width = << >>
    /\ height = << >>
    /\ max_wait = DefaultMaxWait
    /\ LifecycleStart
    /\ SignIdle
    /\ returned_url = None
    /\ runs = << >>

\* create_image / create_wechat_header up to the call of generate_image
GenerationToolStart ==
    /\ pc = "tool"
    /\ tool \in GenerationTools
    /\ IF PromptRaises(tool_args.prompt)
       THEN /\ tool_return' = << ToolErrorObject >>
            /\ pc' = "returned"
            /\ UNCHANGED << width, height >>
       ELSE /\ width' = << ToolDimensions(tool, tool_args.resolution)[1] >>
            /\ height' = << ToolDimensions(tool, tool_args.resolution)[2] >>
            /\ pc' = "submit"
            /\ tool_return' = tool_return
    /\ UNCHANGED << access_key, secret_key, max_wait, body, task_id,
                    start_time, now, result, submit_calls, poll_calls, url_polls,
                    fetch_ticks, poll_errors, submit_resp, last_resp, polled_ids >>
    /\ UNCHANGED << signVars, cropVars, returned_url, tool, tool_args, runs >>

\* create_image / create_wechat_header after generate_image returned
GenerationToolReturn ==
    /\ pc = "done"
    /\ tool \in GenerationTools
    /\ tool_return' = << GenerationToolObject(tool, tool_args.resolution, result) >>
    /\ pc' = "returned"
    /\ UNCHANGED << access_key, secret_key, width, height, max_wait, body, task_id,
                    start_time, now, result, submit_calls, poll_calls, url_polls,
                    fetch_ticks, poll_errors, submit_resp, last_resp, polled_ids >>
    /\ UNCHANGED << signVars, cropVars, returned_url, tool, tool_args, runs >>

\* crop_image_to_url: smart_crop_to_ratio returns None when the image cannot
\* be fetched, else the crop parameters of the fetched image
CropToolCall ==
    /\ pc = "tool"
    /\ tool = "crop_image_to_url"
    /\ \E fetched \in BOOLEAN :
         IF fetched
         THEN /\ \E rect \in get_crop_params(original_width, original_height, target_ratio) :
                    crop' = << rect >>
              /\ tool_return' = << CropToolObject(tool_args.output_format) >>
         ELSE /\ crop' = crop
              /\ tool_return' = << ToolErrorObject >>
    /\ pc' = "returned"
    /\ UNCHANGED << access_key, secret_key, width, height, max_wait, body, task_id,
                    start_time, now, result, submit_calls, poll_calls, url_polls,
                    fetch_ticks, poll_errors, submit_resp, last_resp, polled_ids >>
    /\ UNCHANGED << signVars, original_width, original_height, target_ratio,
                    returned_url, tool, tool_args, runs >>

\* get_style_suggestions
StyleToolCall ==
    /\ pc = "tool"
    /\ tool = "get_style_suggestions"
    /\ tool_return' = << StyleToolObject(tool_args.content_type) >>
    /\ pc' = "returned"
    /\ UNCHANGED << access_key, secret_key, width, height, max_wait, body, task_id,
                    start_time, now, result, submit_calls, poll_calls, url_polls,
                    fetch_ticks, poll_errors, submit_resp, last_resp, polled_ids >>
    /\ UNCHANGED << signVars, cropVars, returned_url, tool, tool_args, runs >>

NextTools ==
    \/ GenerationToolStart
    \/ Submit
    \/ Poll
    \/ Sleep
    \/ Timeout
    \/ GenerationToolReturn
    \/ CropToolCall
    \/ StyleToolCall

SpecTools == InitTools /\ [][NextTools]_vars

----------------------------------------------------------------------------
(* get_result called directly, on any client, with any answer *)

TaskIds == {"T1", "T2"}

\* answers to a direct get_result call: the HTTP status, the application
\* code, the job status and the URL list vary independently
DirectPollResponses ==
    { [exc |-> TRUE, status_code |-> 0, code |-> 0, status |-> "generating",
       image_urls |-> << >>] }
    \cup [exc : {FALSE}, status_code : {200, 500}, code : {SuccessCode, 50411},
          status : JobStatuses \cup {"in_queue"},
          image_urls : UrlLists \cup { << "", "u1" >> }]

InitResult ==
    /\ pc = "get_result"
    /\ access_key \in Credentials
    /\ secret_key \in Secrets
    /\ width = << >>
    /\ height = << >>
    /\ max_wait = DefaultMaxWait
    /\ LifecycleStart
    /\ SignIdle
    /\ CropIdle
    /\ OthersIdle

\* one get_result(task_id) call; without keys no request is sent
GetResultCall ==
    /\ pc = "get_result"
    /\ \E tid \in TaskIds, resp \in DirectPollResponses :
         /\ polled_ids' = {tid}
         /\ last_resp' = IF KeysMissing(access_key, secret_key) THEN << >> ELSE << resp >>
         /\ returned_url' = get_result(access_key, secret_key, resp)
    /\ poll_calls' = poll_calls + 1
    /\ pc' = "returned"
    /\ UNCHANGED << access_key, secret_key, width, height, max_wait, body, task_id,
                    start_time, now, result, submit_calls, url_polls,
                    fetch_ticks, poll_errors, submit_resp >>
    /\ UNCHANGED << signVars, cropVars, toolVars, runs >>

NextResult == GetResultCall

SpecResult == InitResult /\ [][NextResult]_vars

----------------------------------------------------------------------------
(* Several generate_image coroutines in flight on the one client get_client
   returns.  The client's fields are the credentials; everything else a run
   uses is a local of its coroutine: task_id, start_time, the responses it
   awaited.  A run reads the clock at its own steps only, so each run carries
   the clock reading of its latest step. *)

MaxRuns == 2
RunIds == 1 .. MaxRuns

\* the task id the service gives to the submission of run i
TaskIdNames == << "T1", "T2", "T3", "T4" >>
RunTaskId(i) == TaskIdNames[i]

\* the service's image URL of a task
UrlOf(tid) ==
    CASE tid = "T1" -> "u1"
      [] tid = "T2" -> "u2"
      [] tid = "T3" -> "u3"
      [] OTHER -> "u4"

\* answers to the submit call of run i
RunSubmitResponses(i) ==
    { [r EXCEPT !.task_id = IF @ = "T1" THEN RunTaskId(i) ELSE @] : r \in SubmitResponses }

\* answers to a get_result call for task tid: the call raises, the job is
\* generating, the job is done without URLs, the job is done with its URL
RunPollResponses(tid) ==
    { [exc |-> TRUE, status_code |-> 0, code |-> 0, status |-> "generating",
       image_urls |-> << >>],
      [exc |-> FALSE, status_code |-> 200, code |-> SuccessCode, status |-> "generating",
       image_urls |-> << >>],
      [exc |-> FALSE, status_code |-> 200, code |-> SuccessCode, status |-> "done",
       image_urls |-> << UrlOf(tid) >>] }

RunMaxWaits == {0, SleepSeconds + 1}
RunDurations == {0, CallTimeout * TicksPerSec}

\* the locals of a generate_image coroutine about to call submit_task
NewRun(mw) ==
    [pc |-> "submit", max_wait |-> mw, task_id |-> None, start_time |-> 0, now |-> 0,
     result |-> NoResult, submit_resp |-> << >>, last_resp |-> << >>, polled |-> {}]

\* a suspended run blocking the event loop, as time.sleep would
HoldsLoop_BlockingSleep(r) == r.pc = "sleep"

\* whether a run suspended at an await keeps the event loop from running
\* other coroutines: await client.post and await asyncio.sleep hand it back
HoldsLoop(r) == FALSE

\* no other run keeps the event loop
LoopFree(i) == \A j \in RunIds \ {i} : ~HoldsLoop(runs[j])

\* the id of another run's task
PolledTaskId_Other(i) == RunTaskId(CHOOSE j \in RunIds : j # i)

\* the task id run i hands to get_result: its local task_id
PolledTaskId(i) == runs[i].task_id

InitRuns ==
    /\ pc = "concurrent"
    /\ access_key \in Credentials
    /\ secret_key \in Secrets
    /\ width = << DefaultSide >>
    /\ height = << DefaultSide >>
    /\ max_wait = DefaultMaxWait
    /\ LifecycleStart
    /\ SignIdle
    /\ CropIdle
    /\ returned_url = None
    /\ tool = "none"
    /\ tool_args = << >>
    /\ tool_return = << >>
    /\ runs \in [RunIds -> {NewRun(mw) : mw \in RunMaxWaits}]

\* what a step of one run leaves alone
RunFrame ==
    /\ UNCHANGED lifecycleVars
    /\ UNCHANGED << signVars, cropVars, returned_url, toolVars >>

\* run i: task_id = await self.submit_task(...); start_time = time.time()
RunSubmit(i) ==
    /\ runs[i].pc = "submit"
    /\ LoopFree(i)
    /\ \E resp \in RunSubmitResponses(i), d \in RunDurations :
         LET r == runs[i]
             sends == SubmitTransmits(access_key, secret_key, width, height)
             tid == submit_task(access_key, secret_key, width, height, resp)
             t == IF sends THEN r.now + d ELSE r.now
         IN  runs' = [runs EXCEPT ![i] =
                 IF SubmissionFailed(tid)
                 THEN [r EXCEPT !.pc = "done", !.task_id = tid, !.now = t,
                                !.submit_resp = IF sends THEN << resp >> ELSE << >>,
                                !.result = ErrorResult]
                 ELSE [r EXCEPT !.pc = "loop", !.task_id = tid, !.now = t,
                                !.submit_resp = << resp >>, !.start_time = t]]
    /\ RunFrame

\* run i: image_url = await self.get_result(task_id)
RunPoll(i) ==
    /\ runs[i].pc = "loop"
    /\ LoopCondition(runs[i].now, runs[i].start_time, runs[i].max_wait)
    /\ LoopFree(i)
    /\ \E resp \in RunPollResponses(PolledTaskId(i)), d \in RunDurations :
         LET r == runs[i]
             image_url == get_result(access_key, secret_key, resp)
             t == r.now + d
         IN  IF Truthy(image_url)
             THEN \E gt \in RoundTenths(t - r.start_time) :
                    runs' = [runs EXCEPT ![i] =
                        [r EXCEPT !.pc = "done", !.now = t, !.last_resp = << resp >>,
                                  !.polled = @ \cup {PolledTaskId(i)},
                                  !.result = SuccessResult(image_url, r.task_id, gt)]]
             ELSE runs' = [runs EXCEPT ![i] =
                        [r EXCEPT !.pc = "sleep", !.now = t, !.last_resp = << resp >>,
                                  !.polled = @ \cup {PolledTaskId(i)}]]
    /\ RunFrame

\* run i: await asyncio.sleep(5)
RunSleep(i) ==
    /\ runs[i].pc = "sleep"
    /\ LoopFree(i)
    /\ runs' = [runs EXCEPT ![i] = [@ EXCEPT !.pc = "loop", !.now = @ + SleepTicks]]
    /\ RunFrame

\* run i: the loop test fails
RunTimeout(i) ==
    /\ runs[i].pc = "loop"
    /\ ~LoopCondition(runs[i].now, runs[i].start_time, runs[i].max_wait)
    /\ LoopFree(i)
    /\ runs' = [runs EXCEPT ![i] =
                  [@ EXCEPT !.pc = "done", !.result = TimeoutResult(runs[i].task_id)]]
    /\ RunFrame

\* the next step of run i
RunStep(i) == RunSubmit(i) \/ RunPoll(i) \/ RunSleep(i) \/ RunTimeout(i)

NextRuns ==
    \/ \E i \in RunIds : RunSubmit(i)
    \/ \E i \in RunIds : RunPoll(i)
    \/ \E i \in RunIds : RunSleep(i)
    \/ \E i \in RunIds : RunTimeout(i)

SpecRuns == InitRuns /\ [][NextRuns]_vars

----------------------------------------------------------------------------
(* Properties *)

\* the response is a job that is done and lists at least one URL
DoneWithUrls(resp) ==
    /\ ~resp.exc
    /\ resp.status_code = 200
    /\ resp.code = SuccessCode
    /\ resp.status = "done"
    /\ resp.image_urls # << >>

\* C1: when no get_result call ever returns a URL, generate_image after a
\* successful submission terminates, and it ends with status "timeout"
\* carrying the submitted task id; when every get_result call took no time,
\* it ends no later than one sleep interval past max_wait.
C1_TimeoutTerminates ==
    /\ [](url_polls = 0) => <>(pc = "done")
    /\ [](  (pc = "done" /\ Truthy(task_id) /\ url_polls = 0)
         => /\ result.status = "timeout"
            /\ result.task_id = task_id
            /\ (fetch_ticks = 0 =>
                  now - start_time <= max_wait * TicksPerSec + SleepTicks))

\* max_wait = 10: polls at 0 and 5 seconds fail instantly, timeout at 10
C1_Witness ==
    /\ pc = "done"
    /\ task_id = "T1"
    /\ max_wait = 10
    /\ url_polls = 0
    /\ fetch_ticks = 0
    /\ poll_calls = 2
    /\ now - start_time = 10 * TicksPerSec
    /\ result.status = "timeout"
    /\ result.task_id = "T1"

\* C2: when the submission gave a task id and the latest poll (the k+1-th)
\* answered "done" with a non-empty URL list, generate_image has ended in
\* success with the first URL of that list, the submitted task id, and a
\* generation_time of at least k sleep intervals.
C2_SucceedsWithFirstUrl ==
    (pc # "submit" /\ Truthy(task_id) /\ last_resp # << >> /\ DoneWithUrls(last_resp[1]))
    => /\ pc = "done"
       /\ result.status = "success"
       /\ result.image_url = last_resp[1].image_urls[1]
       /\ result.task_id = task_id
       /\ result.generation_time >= 10 * SleepSeconds * (poll_calls - 1)

\* task "T1", two polls without a URL, the third is done with two URLs
C2_Witness ==
    /\ pc = "done"
    /\ task_id = "T1"
    /\ poll_calls = 3
    /\ last_resp # << >>
    /\ last_resp[1].image_urls = << "u2", "u1" >>
    /\ result.status = "success"
    /\ result.image_url = "u2"
    /\ result.generation_time >= 100

\* C3: once submit_task has returned no task id, generate_image has returned
\* the "error" dict and get_result has not been called.
C3_SubmitFailureSkipsPolling ==
    (pc # "submit" /\ ~Truthy(task_id))
    => /\ pc = "done"
       /\ result.status = "error"
       /\ poll_calls = 0

\* the submit call raised: the run is over without a poll
C3_Witness ==
    /\ pc = "done"
    /\ submit_resp # << >>
    /\ submit_resp[1].exc
    /\ result.status = "error"
    /\ poll_calls = 0

\* C4: whatever width and height submit_task is given (positive integers,
\* or None for the defaults), the width * height of the body it transmits
\* lies within [1024 * 1024, 4096 * 4096].
C4_AreaWithinLimits ==
    (DimensionsGiven(width, height) => (width[1] > 0 /\ height[1] > 0))
    => \A i \in DOMAIN body :
           /\ body[i].width * body[i].height >= MinArea
           /\ body[i].width * body[i].height <= MaxArea

\* C5: for positive width and height (and configured keys) submit_task
\* transmits a body, its width / height lies within [1/3, 3], and a
\* dimension that differs from the given one is the larger of the two, the
\* other being unchanged.
C5_RatioWithinLimits ==
    (/\ pc = "returned"
     /\ ~KeysMissing(access_key, secret_key)
     /\ DimensionsGiven(width, height)
     /\ width[1] > 0
     /\ height[1] > 0)
    => /\ Len(body) = 1
       /\ 3 * body[1].width >= body[1].height
       /\ body[1].width <= 3 * body[1].height
       /\ (body[1].width # width[1]
             => width[1] > height[1] /\ body[1].height = height[1])
       /\ (body[1].height # height[1]
             => height[1] > width[1] /\ body[1].width = width[1])

\* 1 x 100 is transmitted as 1 x 3
C5_Witness ==
    /\ pc = "returned"
    /\ width = << 1 >>
    /\ height = << 100 >>
    /\ Len(body) = 1
    /\ body[1].width = 1
    /\ body[1].height = 3

C7_SignShortCircuits ==
    (pc = "signed" /\ KeysMissing(access_key, secret_key))
    => signed[1].headers = << >> /\ signed[1].request_url = << >>

\* C8 as stated: a run in which the submit call or a get_result call raised
\* ends with status "error".
C8_TransportErrorFails ==
    (/\ pc = "done"
     /\ \/ (submit_resp # << >> /\ submit_resp[1].exc)
        \/ poll_errors > 0)
    => result.status = "error"

\* C8 amended: a run whose submit call raised ends with status "error"; a
\* run whose submission succeeded never ends with status "error": a
\* get_result call that raised counts as "no URL yet", and the run ends in
\* success or timeout.
C8_OnlySubmitErrorFails ==
    pc = "done"
    => /\ (submit_resp # << >> /\ submit_resp[1].exc) => result.status = "error"
       /\ Truthy(task_id) => result.status \in {"success", "timeout"}
       /\ poll_errors > 0 => result.status \in {"success", "timeout"}

\* a poll raised, a later poll gave the URL
C8_Witness ==
    /\ pc = "done"
    /\ poll_errors > 0
    /\ result.status = "success"

\* C9 as stated: exactly one of width, height of the rectangle equals the
\* source dimension, and the rectangle's area is at most the source's.
C9_ExactlyOneAxis ==
    pc = "cropped"
    => /\ (crop[1].width = original_width) # (crop[1].height = original_height)
       /\ crop[1].width * crop[1].height <= original_width * original_height

\* C9 amended: at least one of width, height of the rectangle equals the
\* source dimension (never both axes trimmed); exactly one does whenever the
\* source ratio differs from the target ratio; when they are equal and the
\* ratio is a float exactly, none is trimmed; the area is at most the source's.
C9_AtMostOneAxis ==
    pc = "cropped"
    => /\ crop[1].width = original_width \/ crop[1].height = original_height
       /\ (original_width * target_ratio[2] # original_height * target_ratio[1]
             => (crop[1].width = original_width) # (crop[1].height = original_height))
       /\ (/\ original_width * target_ratio[2] = original_height * target_ratio[1]
           /\ IsPowerOfTwo(target_ratio[2]))
             => (crop[1].width = original_width /\ crop[1].height = original_height)
       /\ crop[1].width * crop[1].height <= original_width * original_height

\* 2000 x 1000 at ratio 2.0: the rectangle is the whole source
C9_Witness ==
    /\ pc = "cropped"
    /\ original_width = 2000
    /\ original_height = 1000
    /\ target_ratio = << 2, 1 >>
    /\ crop[1].width = 2000
    /\ crop[1].height = 1000

\* C10: the rectangle has x, y, width, height in Nat and lies inside the
\* source: x + width <= original_width and y + height <= original_height.
C10_RectangleInsideSource ==
    pc = "cropped"
    => /\ crop[1].x \in Nat
       /\ crop[1].y \in Nat
       /\ crop[1].width \in Nat
       /\ crop[1].height \in Nat
       /\ crop[1].x + crop[1].width <= original_width
       /\ crop[1].y + crop[1].height <= original_height

\* 2000 x 1000 at ratio 1.0: the middle 1000 columns
C10_Witness ==
    /\ pc = "cropped"
    /\ original_width = 2000
    /\ original_height = 1000
    /\ target_ratio = << 1, 1 >>
    /\ crop[1].x = 500
    /\ crop[1].width = 1000
    /\ crop[1].height = 1000

\* the crop policy in exact arithmetic: floor(sourceHeight * targetRatio) and
\* floor(sourceWidth / targetRatio), centred
ReferenceCrop(ow, oh, ratio) ==
    IF ow * ratio[2] >= oh * ratio[1]
    THEN LET w == (oh * ratio[1]) \div ratio[2]
         IN  [x |-> (ow - w) \div 2, y |-> 0, width |-> w, height |-> oh]
    ELSE LET h == (ow * ratio[2]) \div ratio[1]
         IN  [x |-> 0, y |-> (oh - h) \div 2, width |-> ow, height |-> h]

C12_ToolsReturnStatus ==
    pc = "returned" /\ tool # "none" => "status" \in tool_return[1].keys

\* C13: get_result returns a URL exactly when a response came, with HTTP
\* status 200, application code 10000, job status "done" and a non-empty
\* image_urls, and the URL is then the first of the list; otherwise (other
\* HTTP status, other code, other job status, empty list, transport
\* exception, no request sent) it returns None.
C13_UrlIffDone ==
    pc = "returned" /\ tool = "none"
    => /\ (returned_url # None) <=> (last_resp # << >> /\ DoneWithUrls(last_resp[1]))
       /\ (returned_url # None => returned_url = last_resp[1].image_urls[1])

\* a done answer with two URLs gives the first; a 200 answer still generating gives None
C13_Witness ==
    /\ pc = "returned"
    /\ polled_ids # {}
    /\ last_resp # << >>
    /\ last_resp[1].image_urls = << "u2", "u1" >>
    /\ DoneWithUrls(last_resp[1])
    /\ returned_url = "u2"

\* C14 as stated: with every get_result call lasting at most the call
\* timeout, generate_image after a successful submission returns no later
\* than max_wait plus one call timeout after polling started.
C14_WithinOneCallTimeout ==
    pc = "done" /\ Truthy(task_id) /\ tool = "none"
    => now - start_time <= (max_wait + CallTimeout) * TicksPerSec

\* C14 amended: with every get_result call lasting at most the call timeout,
\* a success is returned earlier than max_wait plus one call timeout after
\* polling started, and a timeout earlier than max_wait plus one call timeout
\* plus one sleep interval: the last poll begins before max_wait, and when it
\* gives no URL the loop sleeps once more before it tests the deadline.
C14_WithinCallTimeoutAndSleep ==
    pc = "done" /\ Truthy(task_id) /\ tool = "none"
    => /\ result.status = "success"
          => now - start_time < (max_wait + CallTimeout) * TicksPerSec
       /\ result.status = "timeout"
          => now - start_time < (max_wait + CallTimeout + SleepSeconds) * TicksPerSec
       /\ result.status \in {"success", "timeout"}

\* max_wait = 1: the one poll lasts the full call timeout, then the sleep:
\* the timeout is returned 35 seconds after polling started
C14_Witness ==
    /\ pc = "done"
    /\ Truthy(task_id)
    /\ max_wait = 1
    /\ poll_calls = 1
    /\ result.status = "timeout"
    /\ now - start_time = (CallTimeout + SleepSeconds) * TicksPerSec

\* C15: a generate_image run calls submit_task exactly once and sends at most
\* one submit request, whatever the polls answer; every get_result call is
\* for the task id that submit returned; and once the run has returned
\* (success, timeout or error) it issues no further submit or get_result call.
C15_SubmitOnceThenOnlyPolls ==
    /\ [](tool = "none" /\ pc \in {"submit", "loop", "sleep", "done"}
          => /\ submit_calls <= 1
             /\ (pc # "submit" <=> submit_calls = 1)
             /\ Len(body) <= 1
             /\ (poll_calls > 0 => Truthy(task_id) /\ polled_ids = {task_id})
             /\ (poll_calls = 0 => polled_ids = {}))
    /\ [][pc = "done" => (UNCHANGED << submit_calls, poll_calls, body, polled_ids, result >>)]_vars
    /\ [][(pc = "loop" \/ pc = "sleep") => (UNCHANGED << submit_calls, body, task_id >>)]_vars

\* one submit, three polls for its task id, the third gave the URL
C15_Witness ==
    /\ pc = "done"
    /\ submit_calls = 1
    /\ Len(body) = 1
    /\ poll_calls = 3
    /\ task_id = "T1"
    /\ polled_ids = {"T1"}
    /\ result.status = "success"

\* what run i has polled and returned is determined by its own task and the
\* responses to its own calls
OwnOutcome(i) ==
    LET r == runs[i]
        own == RunTaskId(i)
    IN  /\ r.polled \subseteq {own}
        /\ r.task_id \in {None, "", own}
        /\ r.pc = "done"
           => /\ r.result.status \in {"error", "success", "timeout"}
              /\ r.result.status = "error"
                 <=> \/ r.submit_resp = << >>
                     \/ SubmissionFailed(submit_task(access_key, secret_key, width, height,
                                                     r.submit_resp[1]))
              /\ r.result.status = "success"
                 => /\ r.last_resp # << >>
                    /\ DoneWithUrls(r.last_resp[1])
                    /\ r.result.image_url = r.last_resp[1].image_urls[1]
                    /\ r.result.image_url = UrlOf(own)
                    /\ r.result.task_id = own
              /\ r.result.status = "timeout"
                 => /\ r.result.task_id = own
                    /\ ~LoopCondition(r.now, r.start_time, r.max_wait)
                    /\ (r.last_resp = << >> \/ ~DoneWithUrls(r.last_resp[1]))

====
